---- MODULE Spec2Model ----
(***************************************************************************)
(* Model of the feeder fetch / dedup / notify pipeline.                    *)
(*                                                                         *)
(*   Spec      the run command: fetch_all_unnotified, the per-article send *)
(*             loop and the per-feed mark_notified commit (src/main.rs,    *)
(*             src/services/fetch_service.rs)                              *)
(*   StoreSpec the Dedup Store and FetchService operations applied to      *)
(*             arbitrary arguments (article_cache_repository.rs)           *)
(*   SendSpec  one NotificationService::send call, attempt by attempt      *)
(*             (src/services/notification_service.rs)                      *)
(***************************************************************************)
EXTENDS Integers, Sequences, FiniteSets, Bags, TLC

VARIABLES
    \* --- the SQLite database (connection.rs SCHEMA) ---
    feedsTable,         \* rows of table feeds
    notified,           \* rows of table notified_articles, a bag of rows
    feedSeq,            \* the last id AUTOINCREMENT gave to a row of feeds
    \* --- cmd_run ---
    pc,                 \* "idle" | "fetched" | "loop" ("off": no run)
    dry_run,            \* the --dry-run flag of the current run
    skip_notify,        \* the --skip-notify flag of the current run
    results,            \* Vec<FetchResult> returned by fetch_all_unnotified
    fi,                 \* position of the outer loop (feed)
    ai,                 \* position of the inner loop (article)
    notified_articles,  \* articles of the current feed whose send returned Ok
    runResult,          \* what the last run returned: "none" | "ok" |
                        \* "err_listing" | "err_client" | "err_mark"
    \* --- environment and history of the runs ---
    listing,            \* what get_all answered in the last run
    fetched,            \* what each feed's source answered in this run
    sentOk,             \* <<feed id, article id>> -> successful sends in this run
    sendFailed,         \* <<feed id, article id>> whose send failed on a transport error in this run
    prevFailed,         \* the same for the previous run, restricted to never-delivered ones
    committed,          \* <<feed id, article id>> delivered and then committed
    send_calls,         \* calls of NotificationService::send in this run
    modes,              \* the <<dry_run, skip_notify>> flags the runs are started with
    \* --- StoreSpec ---
    op,                 \* the last store / service operation with arguments and result
    everMarked,         \* cache keys for which mark_notified has returned Ok
    \* --- SendSpec ---
    notification,       \* the Notification handed to send
    tr,                 \* the transport's behaviour
    spc,                \* "off" | "first" | "loop" | "final" | "done"
    high,               \* the loop variable of send
    attempts,           \* the delivery attempts made so far: body text and message
    answers,            \* what send_message returned to each attempt
    sresult,            \* "none" | "ok" | "err_too_large" | "err_transport"
    \* --- SendAllSpec ---
    notifications,      \* the slice handed to send_all
    ni,                 \* position of send_all's loop
    errors,             \* the Vec<FeederError> send_all collects
    sapc,               \* "off" | "loop" | "sending" | "done"
    outcomes,           \* the sends send_all has made: position, notification, result
    \* --- WorkSpec ---
    conn,               \* the Mutex<Connection> of SqliteStorage: 0, or the worker holding the guard
    workers             \* each worker's call on the store and how far it is

dbVars   == <<feedsTable, notified, feedSeq>>
runVars  == <<pc, dry_run, skip_notify, results, fi, ai, notified_articles, runResult>>
histVars == <<listing, fetched, sentOk, sendFailed, prevFailed, committed,
             send_calls, modes>>
storeVars == <<op, everMarked>>
sendVars == <<notification, tr, spc, high, attempts, answers, sresult>>
sendAllVars == <<notifications, ni, errors, sapc, outcomes>>
workVars == <<conn, workers>>
vars == <<dbVars, runVars, histVars, storeVars, sendVars, sendAllVars, workVars>>

----------------------------------------------------------------------------
(* Bounds *)

MaxArticles == 2    \* articles the sources list in one run, all feeds together
MaxKeys == 2        \* keys in one get_unnotified query
MaxLen == 4           \* characters of a notification body text
MaxBatch == 2         \* notifications handed to one send_all
MaxHost == 2          \* pieces a URL's host is made of
MaxFeedId == 3        \* ids AUTOINCREMENT gives before the model stops adding
MaxImport == 2        \* URLs in one imported OPML document
MaxServed == 2        \* resources a web serves in one validation
MaxWorkers == 2       \* threads sharing one SqliteStorage
TitleLen == 2         \* the length Mastodon titles are cut to (200 in the source)
MaxOutlines == 3      \* outlines in one OPML body, at all depths

----------------------------------------------------------------------------
(* Strings are sequences of characters. *)

Titles == { <<"T">>, <<"T", ":", "a">> }
ArticleIds == { <<"a">>, <<"a", ":", "a">> }
FeedIds == {1, 2}           \* ids of the persisted feeds
FeedIdArgs == {1, 2, 3}     \* feed_id arguments; 3 has no row in feeds
Times == {1, 2}             \* created_at values (second resolution)

Range(s) == { s[i] : i \in 1..Len(s) }

SeqsUpTo(S, n) == UNION { [1..k -> S] : k \in 0..n }

Min(a, b) == IF a < b THEN a ELSE b

Articles == [id : ArticleIds]

CacheKey(feed_title, article) == feed_title \o <<":">> \o article.id

----------------------------------------------------------------------------
(* The database: tables feeds and notified_articles *)

FeedRows == [id : FeedIds, url : {"u1", "u2"}, title : Titles, created_at : Times]

NotifiedRow(cache_key, feed_id) == [cache_key |-> cache_key, feed_id |-> feed_id]

\* SELECT EXISTS(SELECT 1 FROM notified_articles WHERE cache_key = ?1)
IsNotified(tbl, cache_key) == \E r \in BagToSet(tbl) : r.cache_key = cache_key

\* number of rows of notified_articles holding cache_key
RowCount(tbl, cache_key) ==
    BagCardinality([r \in {x \in BagToSet(tbl) : x.cache_key = cache_key} |-> tbl[r]])

\* a plain INSERT: the UNIQUE conflict on cache_key is an error
MarkNotifiedRepoPlainInsert(tbl, feeds, cache_key, feed_id) ==
    IF IsNotified(tbl, cache_key) \/ \A f \in feeds : f.id # feed_id
    THEN [ok |-> FALSE, tbl |-> tbl]
    ELSE [ok |-> TRUE, tbl |-> tbl (+) SetToBag({NotifiedRow(cache_key, feed_id)})]

\* INSERT OR IGNORE INTO notified_articles (cache_key, feed_id, article_title):
\* a row whose cache_key conflicts with UNIQUE is skipped; otherwise the foreign
\* key feed_id -> feeds(id) is enforced (PRAGMA foreign_keys = ON) and its
\* violation is an error; otherwise the row is inserted.
MarkNotifiedRepo(tbl, feeds, cache_key, feed_id) ==
    IF IsNotified(tbl, cache_key)
    THEN [ok |-> TRUE, tbl |-> tbl]
    ELSE IF \A f \in feeds : f.id # feed_id
         THEN [ok |-> FALSE, tbl |-> tbl]
         ELSE [ok |-> TRUE, tbl |-> tbl (+) SetToBag({NotifiedRow(cache_key, feed_id)})]

\* keys.iter().filter(|k| !notified.contains(k)).cloned().collect()
RECURSIVE FilterNotIn(_, _)
FilterNotIn(keys, notifiedKeys) ==
    IF keys = <<>> THEN <<>>
    ELSE (IF Head(keys) \in notifiedKeys THEN <<>> ELSE <<Head(keys)>>)
         \o FilterNotIn(Tail(keys), notifiedKeys)

\* the filter without its negation: the keys that are among the selected ones
GetUnnotifiedInverted(tbl, keys) ==
    IF keys = <<>> THEN <<>>
    ELSE LET notifiedKeys ==
                 { r.cache_key : r \in {x \in BagToSet(tbl) : x.cache_key \in Range(keys)} }
         IN  SelectSeq(keys, LAMBDA k : k \in notifiedKeys)

\* get_unnotified: early return on no keys; SELECT cache_key ... WHERE cache_key
\* IN (keys); then the keys that are not among the selected ones, in input order
GetUnnotified(tbl, keys) ==
    IF keys = <<>> THEN <<>>
    ELSE LET notifiedKeys ==
                 { r.cache_key : r \in {x \in BagToSet(tbl) : x.cache_key \in Range(keys)} }
         IN  FilterNotIn(keys, notifiedKeys)

\* SELECT ... FROM feeds ORDER BY created_at DESC: every order of the rows that
\* is non-increasing in created_at (ties are in no defined order)
GetAllOrders(feeds) ==
    { s \in [1..Cardinality(feeds) -> feeds] :
        /\ \A i, j \in 1..Cardinality(feeds) : i # j => s[i] # s[j]
        /\ \A i, j \in 1..Cardinality(feeds) : i < j => s[i].created_at >= s[j].created_at }

\* get_all: Ok(rows in one of those orders) or a database error
GetAllOk(feeds) == [ok |-> TRUE, feeds |-> feeds]
GetAllErr == [ok |-> FALSE, feeds |-> <<>>]
GetAll(feeds) == { GetAllOk(s) : s \in GetAllOrders(feeds) } \cup {GetAllErr}

----------------------------------------------------------------------------
(* FetchService *)

\* What the environment answers for one feed: the source lists articles
\* ("ok"), the source fails to fetch or parse ("fetch_err"), or the source lists
\* articles and the store's query then fails ("db_err")
SourceOk(articles) == [kind |-> "ok", articles |-> articles]
SourceErr == [kind |-> "fetch_err", articles |-> <<>>]
SourceDbErr(articles) == [kind |-> "db_err", articles |-> articles]
ArticleLists == SeqsUpTo(Articles, MaxArticles)
SourceOutcomes ==
    { SourceOk(a) : a \in ArticleLists } \cup {SourceErr}
    \cup { SourceDbErr(<<a>>) : a \in Articles }

RECURSIVE CacheKeys(_, _)
CacheKeys(feed_title, articles) ==
    IF articles = <<>> THEN <<>>
    ELSE <<CacheKey(feed_title, Head(articles))>> \o CacheKeys(feed_title, Tail(articles))

\* the filter looking up the article id instead of the cache key
FilterArticlesById(feed_title, articles, unnotified_keys) ==
    SelectSeq(articles, LAMBDA a : a.id \in Range(unnotified_keys))

RECURSIVE FilterArticles(_, _, _)
FilterArticles(feed_title, articles, unnotified_keys) ==
    IF articles = <<>> THEN <<>>
    ELSE (IF CacheKey(feed_title, Head(articles)) \in Range(unnotified_keys)
          THEN <<Head(articles)>> ELSE <<>>)
         \o FilterArticles(feed_title, Tail(articles), unnotified_keys)

\* fetch_unnotified: Err when the source fails or the store's query fails (the
\* query touches the database only when there is a key), else
\* (total_count, unnotified_articles)
FetchUnnotified(tbl, feed, src) ==
    IF src.kind = "fetch_err" THEN [ok |-> FALSE, total |-> 0, articles |-> <<>>]
    ELSE LET articles == src.articles
             cache_keys == CacheKeys(feed.title, articles)
         IN  IF cache_keys # <<>> /\ src.kind = "db_err"
             THEN [ok |-> FALSE, total |-> 0, articles |-> <<>>]
             ELSE [ok |-> TRUE, total |-> Len(articles),
                   articles |-> FilterArticles(feed.title, articles,
                                               GetUnnotified(tbl, cache_keys))]

FetchResultSuccess(feed, total_articles, new_articles) ==
    [feed |-> feed, total_articles |-> total_articles,
     new_articles |-> new_articles, error |-> "None"]

FetchResultError(feed, error) ==
    [feed |-> feed, total_articles |-> 0, new_articles |-> <<>>, error |-> error]

\* the loop with the feed's error propagated: it stops at the first failing feed
RECURSIVE FetchAllLoopAbort(_, _, _)
FetchAllLoopAbort(tbl, feeds, src) ==
    IF feeds = <<>> THEN <<>>
    ELSE LET feed == Head(feeds)
             r == FetchUnnotified(tbl, feed, src[feed.id])
         IN  IF r.ok
             THEN <<FetchResultSuccess(feed, r.total, r.articles)>>
                  \o FetchAllLoopAbort(tbl, Tail(feeds), src)
             ELSE <<>>

\* the loop of fetch_all_unnotified over the feeds get_all returned
RECURSIVE FetchAllLoop(_, _, _)
FetchAllLoop(tbl, feeds, src) ==
    IF feeds = <<>> THEN <<>>
    ELSE LET feed == Head(feeds)
             r == FetchUnnotified(tbl, feed, src[feed.id])
         IN  <<IF r.ok THEN FetchResultSuccess(feed, r.total, r.articles)
                       ELSE FetchResultError(feed, "fetch failed")>>
             \o FetchAllLoop(tbl, Tail(feeds), src)

\* fetch_all_unnotified: get_all()? then one FetchResult per feed
FetchAllUnnotified(tbl, got, src) ==
    IF ~got.ok THEN [ok |-> FALSE, results |-> <<>>]
    ELSE [ok |-> TRUE, results |-> FetchAllLoop(tbl, got.feeds, src)]

\* FetchService::mark_notified: feed.id must be set, then one repository
\* mark_notified per article, stopping at the first error (failAt = 0: the
\* database answers every statement; failAt = k: statement k fails)
RECURSIVE MarkLoop(_, _, _, _, _, _)
MarkLoop(tbl, feeds, feed, articles, failAt, k) ==
    IF articles = <<>> THEN [ok |-> TRUE, tbl |-> tbl]
    ELSE IF failAt = k THEN [ok |-> FALSE, tbl |-> tbl]
    ELSE LET r == MarkNotifiedRepo(tbl, feeds, CacheKey(feed.title, Head(articles)), feed.id)
         IN  IF ~r.ok THEN r
             ELSE MarkLoop(r.tbl, feeds, feed, Tail(articles), failAt, k + 1)

MarkNotified(tbl, feeds, feed, articles, failAt) ==
    MarkLoop(tbl, feeds, feed, articles, failAt, 1)

----------------------------------------------------------------------------
(* cmd_run *)

\* what NotificationService::send returns to cmd_run
SendResults == {"ok", "err_transport", "err_too_large"}

Pairs == FeedIds \X ArticleIds

NoSends == [p \in Pairs |-> 0]

NoFetch == [f \in FeedIds |-> SourceErr]

RECURSIVE TotalListed(_, _)
TotalListed(src, feeds) ==
    IF feeds = {} THEN 0
    ELSE LET f == CHOOSE x \in feeds : TRUE
         IN  Len(src[f].articles) + TotalListed(src, feeds \ {f})

\* what the sources of all feeds answer in one run
SourceAnswers ==
    { src \in [FeedIds -> SourceOutcomes] : TotalListed(src, FeedIds) <= MaxArticles }

\* the articles of notified_articles[1..n] as <<feed id, article id>> pairs
PairsOf(feed, articles, n) == { <<feed.id, articles[i].id>> : i \in 1..n }

\* how many of the articles the service marked before it returned
MarkedUpTo(articles, failAt) == IF failAt = 0 THEN Len(articles) ELSE failAt - 1

\* --skip-notify: no delivery, the unseen articles are marked all the same; it
\* wins over --dry-run
SkipNotifyModeDryRunWins(dry, skip) == skip /\ ~dry

SkipNotifyMode(dry, skip) == skip

\* cmd_run returns: its locals are dropped; what the run's sends left behind is
\* kept as prevFailed for the next run
RunEnds(result) ==
    /\ pc' = "idle"
    /\ runResult' = result
    /\ dry_run' = FALSE
    /\ skip_notify' = FALSE
    /\ results' = <<>>
    /\ fi' = 1
    /\ ai' = 1
    /\ notified_articles' = <<>>
    /\ fetched' = NoFetch
    /\ sentOk' = NoSends
    /\ sendFailed' = {}
    /\ send_calls' = 0
    /\ prevFailed' = { p \in sendFailed : sentOk[p] = 0 }
    /\ UNCHANGED modes

\* main.rs 225-229: fetch_all_unnotified()?
RunFetch ==
    /\ pc = "idle"
    /\ \E flags \in modes, got \in GetAll(feedsTable), src \in SourceAnswers :
         LET r == FetchAllUnnotified(notified, got, src) IN
         /\ got.ok \/ src = NoFetch     \* no source is asked after a failed listing
         /\ listing' = got
         /\ IF ~r.ok
            THEN RunEnds("err_listing")
            ELSE /\ pc' = "fetched"
                 /\ runResult' = "none"
                 /\ dry_run' = flags[1]
                 /\ skip_notify' = flags[2]
                 /\ results' = r.results
                 /\ fetched' = src
                 /\ fi' = 1
                 /\ ai' = 1
                 /\ notified_articles' = <<>>
                 /\ sentOk' = NoSends
                 /\ sendFailed' = {}
                 /\ send_calls' = 0
                 /\ UNCHANGED <<prevFailed, modes>>
    /\ UNCHANGED <<dbVars, committed, storeVars, sendVars, sendAllVars, workVars>>

\* main.rs 231-242: the early return on no results, the construction of the
\* NotificationService (none in a dry run)
RunPrepare ==
    /\ pc = "fetched"
    /\ IF results = <<>>
       THEN RunEnds("ok")
       ELSE \E clientOk \in BOOLEAN :
              /\ (~dry_run /\ ~SkipNotifyMode(dry_run, skip_notify)) \/ clientOk
              /\ IF ~clientOk
                 THEN RunEnds("err_client")
                 ELSE /\ pc' = "loop"
                      /\ UNCHANGED <<runResult, dry_run, skip_notify, results, fi, ai,
                                     notified_articles, fetched, sentOk,
                                     sendFailed, prevFailed, send_calls, modes>>
    /\ UNCHANGED <<dbVars, listing, committed, storeVars, sendVars, sendAllVars, workVars>>

\* the inner loop without its test of dry_run
SendArticleNoDryRunTest ==
    /\ pc = "loop"
    /\ ai <= Len(results[fi].new_articles)
    /\ ai' = ai + 1
    /\ LET feed == results[fi].feed
           article == results[fi].new_articles[ai]
           p == <<feed.id, article.id>>
       IN  \E r \in SendResults :
                  /\ send_calls' = send_calls + 1
                  /\ notified_articles' =
                        IF r = "ok" THEN Append(notified_articles, article)
                                    ELSE notified_articles
                  /\ sentOk' = IF r = "ok" THEN [sentOk EXCEPT ![p] = @ + 1] ELSE sentOk
                  /\ sendFailed' =
                        IF r = "err_transport" THEN sendFailed \cup {p} ELSE sendFailed
    /\ UNCHANGED <<dbVars, pc, dry_run, skip_notify, results, fi, runResult,
                   listing, fetched, prevFailed, committed, modes,
                   storeVars, sendVars, sendAllVars, workVars>>

\* main.rs 250-271: one iteration of the inner loop
SendArticle ==
    /\ pc = "loop"
    /\ ai <= Len(results[fi].new_articles)
    /\ ai' = ai + 1
    /\ LET feed == results[fi].feed
           article == results[fi].new_articles[ai]
           p == <<feed.id, article.id>>
       IN  IF SkipNotifyMode(dry_run, skip_notify)
           THEN /\ notified_articles' = Append(notified_articles, article)
                /\ UNCHANGED <<sentOk, sendFailed, send_calls>>
           ELSE IF dry_run
           THEN UNCHANGED <<notified_articles, sentOk, sendFailed, send_calls>>
           ELSE \E r \in SendResults :
                  /\ send_calls' = send_calls + 1
                  /\ notified_articles' =
                        IF r = "ok" THEN Append(notified_articles, article)
                                    ELSE notified_articles
                  /\ sentOk' = IF r = "ok" THEN [sentOk EXCEPT ![p] = @ + 1] ELSE sentOk
                  /\ sendFailed' =
                        IF r = "err_transport" THEN sendFailed \cup {p} ELSE sendFailed
    /\ UNCHANGED <<dbVars, pc, dry_run, skip_notify, results, fi, runResult,
                   listing, fetched, prevFailed, committed, modes,
                   storeVars, sendVars, sendAllVars, workVars>>

\* main.rs 273-279 and 281-290: after the inner loop, mark the feed's delivered
\* articles (an error of mark_notified ends the run), then go to the next feed
\* or return
FinishFeed ==
    /\ pc = "loop"
    /\ ai > Len(results[fi].new_articles)
    /\ LET feed == results[fi].feed IN
       \E failAt \in 0..Len(notified_articles) :
         LET skip == SkipNotifyMode(dry_run, skip_notify)
             mark == (skip \/ ~dry_run) /\ notified_articles # <<>>
             r == IF mark
                  THEN MarkNotified(notified, feedsTable, feed, notified_articles, failAt)
                  ELSE [ok |-> TRUE, tbl |-> notified]
         IN  /\ mark \/ failAt = 0
             /\ notified' = r.tbl
             /\ committed' =
                   IF mark /\ ~skip
                   THEN committed \cup
                        PairsOf(feed, notified_articles,
                                MarkedUpTo(notified_articles, failAt))
                   ELSE committed
             /\ IF ~r.ok
                THEN RunEnds("err_mark")
                ELSE IF fi = Len(results)
                     THEN RunEnds("ok")
                     ELSE /\ fi' = fi + 1
                          /\ ai' = 1
                          /\ notified_articles' = <<>>
                          /\ UNCHANGED <<pc, runResult, dry_run, skip_notify, results,
                                         fetched, sentOk, sendFailed, prevFailed,
                                         send_calls, modes>>
    /\ UNCHANGED <<feedsTable, feedSeq, listing, storeVars, sendVars, sendAllVars, workVars>>

----------------------------------------------------------------------------
(* Notification and NotificationService::send *)

Chars == {"x", "e'"}            \* "e'" stands for a two-byte character
ByteWidth(c) == IF c = "e'" THEN 2 ELSE 1

\* str::len(): the length in bytes
RECURSIVE ByteLen(_)
ByteLen(str) == IF str = <<>> THEN 0 ELSE ByteWidth(Head(str)) + ByteLen(Tail(str))

\* links.join(" ")
RECURSIVE Join(_)
Join(links) ==
    IF links = <<>> THEN <<>>
    ELSE IF Len(links) = 1 THEN Head(links)
    ELSE Head(links) \o <<" ">> \o Join(Tail(links))

\* format without the is_empty tests: colon and space are always pushed
FormatUnconditional(n) ==
    n.feed_title \o <<" ">> \o n.article_title
    \o <<":", " ">> \o n.text
    \o <<" ">> \o Join(n.links)

\* Notification::format
Format(n) ==
    n.feed_title \o <<" ">> \o n.article_title
    \o (IF n.text # <<>> THEN <<":", " ">> \o n.text ELSE <<>>)
    \o (IF n.links # <<>> THEN <<" ">> \o Join(n.links) ELSE <<>>)

\* s.chars().take(max_chars).collect()
truncate_to_char_boundary(str, max_chars) == SubSeq(str, 1, Min(max_chars, Len(str)))

\* the transport: one that rejects exactly the body texts longer than N
\* characters, or one that may answer anything to any attempt
Transports == { [kind |-> "limit", N |-> n] : n \in 0..MaxLen } \cup { [kind |-> "any", N |-> 0] }

\* ChannelClient::send_message as seen by send
Answers(t, n) ==
    IF t.kind = "limit"
    THEN { IF Len(n.text) > t.N THEN "too_large" ELSE "ok" }
    ELSE { "ok", "too_large", "error" }

Attempt(n) == [text |-> n.text, message |-> Format(n)]

\* the match with one arm for every error: any error goes on shrinking
ArmShrinkOnAnyError(ans) == IF ans = "ok" THEN "return_ok" ELSE "shrink"

\* the match without the PayloadTooLarge arm: every error returns
ArmNoShrink(ans) == IF ans = "ok" THEN "return_ok" ELSE "return_err"

\* the match on send_message's result, on the first attempt and in the loop:
\* Ok returns Ok, PayloadTooLarge goes on shrinking, any other error returns it
Arm(ans) ==
    CASE ans = "ok" -> "return_ok"
      [] ans = "too_large" -> "shrink"
      [] OTHER -> "return_err"

\* send returns
SendReturns(r) ==
    /\ spc' = "done"
    /\ sresult' = r
    /\ UNCHANGED high

\* notification_service.rs 25-36: the attempt with the full message
SendFirst ==
    /\ spc = "first"
    /\ attempts' = Append(attempts, Attempt(notification))
    /\ \E ans \in Answers(tr, notification) :
         /\ answers' = Append(answers, ans)
         /\ CASE Arm(ans) = "return_ok" -> SendReturns("ok")
             [] Arm(ans) = "return_err" -> SendReturns("err_transport")
             [] Arm(ans) = "shrink" ->
                  /\ high' = ByteLen(notification.text)
                  /\ spc' = IF high' > 0 THEN "loop" ELSE "final"
                  /\ UNCHANGED sresult
    /\ UNCHANGED <<notification, tr, dbVars, runVars, histVars, storeVars, sendAllVars, workVars>>

\* notification_service.rs 38-50: one iteration of the while loop
SendRetry ==
    /\ spc = "loop"
    /\ LET mid == high \div 2
           truncated == [notification EXCEPT
                           !.text = truncate_to_char_boundary(notification.text, mid)]
       IN  /\ attempts' = Append(attempts, Attempt(truncated))
           /\ \E ans \in Answers(tr, truncated) :
                /\ answers' = Append(answers, ans)
                /\ CASE Arm(ans) = "return_ok" -> SendReturns("ok")
                    [] Arm(ans) = "return_err" -> SendReturns("err_transport")
                    [] Arm(ans) = "shrink" ->
                         /\ high' = mid
                         /\ spc' = IF mid > 0 THEN "loop" ELSE "final"
                         /\ UNCHANGED sresult
    /\ UNCHANGED <<notification, tr, dbVars, runVars, histVars, storeVars, sendAllVars, workVars>>

\* the last attempt with its result dropped: Ok whatever send_message returned
SendFinalResultDropped ==
    /\ spc = "final"
    /\ LET truncated == [notification EXCEPT !.text = <<>>]
       IN  /\ attempts' = Append(attempts, Attempt(truncated))
           /\ \E ans \in Answers(tr, truncated) :
                /\ answers' = Append(answers, ans)
                /\ SendReturns("ok")
    /\ UNCHANGED <<notification, tr, dbVars, runVars, histVars, storeVars, sendAllVars, workVars>>

\* notification_service.rs 52-56: the attempt with no text at all
SendFinal ==
    /\ spc = "final"
    /\ LET truncated == [notification EXCEPT !.text = <<>>]
       IN  /\ attempts' = Append(attempts, Attempt(truncated))
           /\ \E ans \in Answers(tr, truncated) :
                /\ answers' = Append(answers, ans)
                /\ CASE ans = "ok" -> SendReturns("ok")
                    [] ans = "error" -> SendReturns("err_transport")
                    [] ans = "too_large" -> SendReturns("err_too_large")
    /\ UNCHANGED <<notification, tr, dbVars, runVars, histVars, storeVars, sendAllVars, workVars>>

----------------------------------------------------------------------------
(* NotificationService::send_all *)

\* notification_service.rs 63: the for loop takes the next notification and
\* calls send; after the last one send_all returns Ok(errors)
SendAllLoop ==
    /\ sapc = "loop"
    /\ IF ni <= Len(notifications)
       THEN /\ notification' = notifications[ni]
            /\ spc' = "first" /\ high' = 0 /\ attempts' = <<>> /\ answers' = <<>>
            /\ sresult' = "none"
            /\ sapc' = "sending"
       ELSE /\ sapc' = "done"
            /\ UNCHANGED <<notification, spc, high, attempts, answers, sresult>>
    /\ UNCHANGED <<tr, notifications, ni, errors, outcomes,
                   dbVars, runVars, histVars, storeVars, workVars>>

\* the loop body stopping at the first failure
SendAllCollectAbort ==
    /\ sapc = "sending" /\ spc = "done"
    /\ errors' = IF sresult # "ok" THEN Append(errors, [error |-> sresult, of |-> ni])
                 ELSE errors
    /\ outcomes' = Append(outcomes, [of |-> ni, notification |-> notification,
                                     result |-> sresult])
    /\ ni' = ni + 1
    /\ sapc' = IF sresult # "ok" THEN "done" ELSE "loop"
    /\ spc' = "off"
    /\ UNCHANGED <<notification, tr, high, attempts, answers, sresult, notifications,
                   dbVars, runVars, histVars, storeVars, workVars>>

\* notification_service.rs 64-66: send has returned; an Err is pushed to errors
\* ("of" records which notification the error came from)
SendAllCollect ==
    /\ sapc = "sending" /\ spc = "done"
    /\ errors' = IF sresult # "ok" THEN Append(errors, [error |-> sresult, of |-> ni])
                 ELSE errors
    /\ outcomes' = Append(outcomes, [of |-> ni, notification |-> notification,
                                     result |-> sresult])
    /\ ni' = ni + 1
    /\ sapc' = "loop"
    /\ spc' = "off"
    /\ UNCHANGED <<notification, tr, high, attempts, answers, sresult, notifications,
                   dbVars, runVars, histVars, storeVars, workVars>>

----------------------------------------------------------------------------
(* FeedRepository, FeedService and import_opml *)

FeedUrls == {"u1", "u2"}

\* SourceRegistry::validate as seen by the services: an error, or the metadata
Validations ==
    {[ok |-> FALSE, title |-> <<>>]} \cup {[ok |-> TRUE, title |-> t] : t \in Titles}

\* datetime('now'): not before the created_at of any row
Nows(feeds) == { c \in Times : \A f \in feeds : f.created_at <= c }

\* exists with the url compared to another column
ExistsByTitle(feeds, url) == \E f \in feeds : f.title = <<url>>

\* SELECT EXISTS(SELECT 1 FROM feeds WHERE url = ?1)
Exists(feeds, url) == \E f \in feeds : f.url = url

\* INSERT INTO feeds: url is UNIQUE, id is AUTOINCREMENT
InsertFeed(feeds, seq, url, title, now) ==
    IF \E f \in feeds : f.url = url
    THEN [result |-> "err_database", feeds |-> feeds, seq |-> seq]
    ELSE [result |-> "ok", seq |-> seq + 1,
          feeds |-> feeds \cup {[id |-> seq + 1, url |-> url, title |-> title,
                                  created_at |-> now]}]

\* SqliteFeedRepository::add
RepoAdd(feeds, seq, url, title, now) ==
    IF Exists(feeds, url)
    THEN [result |-> "FeedAlreadyExists", feeds |-> feeds, seq |-> seq]
    ELSE InsertFeed(feeds, seq, url, title, now)

\* FeedService::add
ServiceAdd(feeds, seq, url, v, now) ==
    IF Exists(feeds, url)
    THEN [result |-> "FeedAlreadyExists", feeds |-> feeds, seq |-> seq]
    ELSE IF ~v.ok
    THEN [result |-> "err_validate", feeds |-> feeds, seq |-> seq]
    ELSE RepoAdd(feeds, seq, url, v.title, now)

\* the delete without the cascade to notified_articles
RepoRemoveNoCascade(feeds, ntf, id) ==
    [feeds |-> { f \in feeds : f.id # id }, ntf |-> ntf]

\* SqliteFeedRepository::remove: DELETE FROM feeds WHERE id = ?1, with
\* ON DELETE CASCADE on notified_articles.feed_id
RepoRemove(feeds, ntf, id) ==
    [feeds |-> { f \in feeds : f.id # id },
     ntf |-> [r \in { x \in DOMAIN ntf : x.feed_id # id } |-> ntf[r]]]

\* What the environment answers for one URL of an import: the exists query
\* fails with a database error ("exists_err"), or it is answered and validate
\* answers v, and then the add statement is executed ("ok") or fails with a
\* database error ("add_err")
\* (the feeds of one document are all given the title "T")
ImportAnswers ==
    LET vs == { x \in Validations : x.ok => x.title = <<"T">> } IN
    {[db |-> "exists_err", v |-> [ok |-> FALSE, title |-> <<>>]]}
    \cup {[db |-> "ok", v |-> v] : v \in vs}
    \cup {[db |-> "add_err", v |-> v] : v \in {x \in vs : x.ok}}

\* the loop of import_opml over the extracted URLs; vals[i] is what the
\* environment answers for urls[i] if it is asked. `exists(&url)?` returns the
\* database error from import_opml; an error of validate or of add is pushed to
\* invalid and the loop goes on.
RECURSIVE ImportLoop(_, _, _, _, _, _)
ImportLoop(feeds, seq, urls, vals, now, res) ==
    IF urls = <<>> THEN [ok |-> TRUE, feeds |-> feeds, seq |-> seq, res |-> res]
    ELSE LET url == Head(urls)
             v == Head(vals).v
             db == Head(vals).db
         IN  IF db = "exists_err"
             THEN [ok |-> FALSE, feeds |-> feeds, seq |-> seq, res |-> res]
             ELSE IF Exists(feeds, url)
             THEN ImportLoop(feeds, seq, Tail(urls), Tail(vals), now,
                             [res EXCEPT !.duplicates = Append(@, url)])
             ELSE IF ~v.ok
             THEN ImportLoop(feeds, seq, Tail(urls), Tail(vals), now,
                             [res EXCEPT !.invalid = Append(@, url)])
             ELSE LET r == IF db = "add_err"
                           THEN [result |-> "err_database", feeds |-> feeds, seq |-> seq]
                           ELSE RepoAdd(feeds, seq, url, v.title, now)
                  IN  IF r.result = "ok"
                      THEN ImportLoop(r.feeds, r.seq, Tail(urls), Tail(vals), now,
                                      [res EXCEPT !.added = Append(@, url)])
                      ELSE ImportLoop(feeds, seq, Tail(urls), Tail(vals), now,
                                      [res EXCEPT !.invalid = Append(@, url)])

\* import_opml: Ok(ImportResult), or the Err of the exists query, in which case
\* the ImportResult built so far is dropped and the rows added so far stay
ImportOpml(feeds, seq, urls, vals, now) ==
    LET r == ImportLoop(feeds, seq, urls, vals, now,
                        [added |-> <<>>, invalid |-> <<>>, duplicates |-> <<>>])
    IN  [ok |-> r.ok, feeds |-> r.feeds, seq |-> r.seq,
         res |-> IF r.ok THEN r.res
                 ELSE [added |-> <<>>, invalid |-> <<>>, duplicates |-> <<>>]]

\* feeder add <url>
FeedAdd ==
    /\ pc = "off" /\ spc = "off"
    /\ \E url \in FeedUrls, v \in Validations, now \in Nows(feedsTable) :
         LET r == ServiceAdd(feedsTable, feedSeq, url, v, now) IN
         /\ r.seq <= MaxFeedId
         /\ feedsTable' = r.feeds
         /\ feedSeq' = r.seq
         /\ op' = [name |-> "add", url |-> url, result |-> r.result]
    /\ UNCHANGED <<notified, everMarked, runVars, histVars, sendVars, sendAllVars, workVars>>

\* feeder remove, with the id of a listed feed or any other id
FeedRemove ==
    /\ pc = "off" /\ spc = "off"
    /\ \E id \in 1..MaxFeedId :
         LET r == RepoRemove(feedsTable, notified, id) IN
         /\ feedsTable' = r.feeds
         /\ notified' = r.ntf
         /\ op' = [name |-> "remove", id |-> id, result |-> "ok"]
    /\ UNCHANGED <<feedSeq, everMarked, runVars, histVars, sendVars, sendAllVars, workVars>>

\* feeder list: FeedService::list is get_all
FeedList ==
    /\ pc = "off" /\ spc = "off"
    /\ \E got \in GetAll(feedsTable) :
         op' = [name |-> "list", got |-> got]
    /\ UNCHANGED <<dbVars, everMarked, runVars, histVars, sendVars, sendAllVars, workVars>>

\* feeder import <path>; two imports are separated by another command
FeedImport ==
    /\ pc = "off" /\ spc = "off"
    /\ op.name # "import"
    /\ \E urls \in SeqsUpTo(FeedUrls, MaxImport), now \in Nows(feedsTable) :
       \E vals \in [1..Len(urls) -> ImportAnswers] :
         LET r == ImportOpml(feedsTable, feedSeq, urls, vals, now) IN
         /\ r.seq <= MaxFeedId
         /\ feedsTable' = r.feeds
         /\ feedSeq' = r.seq
         /\ op' = [name |-> "import", urls |-> urls, vals |-> vals, ok |-> r.ok,
                   result |-> r.res]
    /\ UNCHANGED <<notified, everMarked, runVars, histVars, sendVars, sendAllVars, workVars>>

----------------------------------------------------------------------------
(* SourceRegistry: URLs are sequences of pieces, each a string without spaces *)

Schemes == {"https://", "http://"}
HostPieces == {"www.", "my", "youtube.com", "youtu.be", "mastodon.social",
               "wordpress.com", ".blogspot.com"}
Paths == { <<>>, <<"/feed">>, <<"/@", "user">>, <<"/channel/", "id">> }
\* the pieces that hold a '/'
SlashPieces == Schemes \cup {"/feed", "/@", "/channel/", "/c/", "/user/"}

Hosts == SeqsUpTo(HostPieces, MaxHost) \ {<<>>}
Urls == { <<sch>> \o h \o pth : sch \in Schemes, h \in Hosts, pth \in Paths }

\* str::contains
Contains(url, pat) ==
    \E i \in 1..(Len(url) - Len(pat) + 1) : SubSeq(url, i, i + Len(pat) - 1) = pat

\* Regex https?://[^/]+/@[^/]+ is_match: the pattern anywhere in the URL
UserRegexMatches(url) ==
    \E i \in 1..Len(url), j \in 1..Len(url) :
        /\ url[i] \in Schemes
        /\ j > i + 1
        /\ \A k \in (i + 1)..(j - 1) : url[k] \notin SlashPieces
        /\ url[j] = "/@"
        /\ j < Len(url) /\ url[j + 1] \notin SlashPieces

\* FeedSource::can_handle of each source; wp is what WordPressSource::is_wordpress
\* finds out over the network
CanHandle(kind, url, wp) ==
    CASE kind = "YouTube" ->
             \/ Contains(url, <<"youtube.com", "/channel/">>)
             \/ Contains(url, <<"youtube.com", "/@">>)
             \/ Contains(url, <<"youtube.com", "/c/">>)
             \/ Contains(url, <<"youtube.com", "/user/">>)
      [] kind = "Mastodon" ->
             IF Contains(url, <<"youtube.com">>) \/ Contains(url, <<"youtu.be">>)
             THEN FALSE
             ELSE UserRegexMatches(url)
      [] kind = "Blogger" -> Contains(url, <<".blogspot.com">>)
      [] kind = "WordPress" -> Contains(url, <<"wordpress.com">>) \/ wp
      [] kind = "RssAtom" -> TRUE

\* SourceRegistry::new: the sources in the order they are registered
SourceOrder == <<"YouTube", "Mastodon", "Blogger", "WordPress", "RssAtom">>

\* the registry after each register call of new()
Registries == { SubSeq(SourceOrder, 1, n) : n \in 0..Len(SourceOrder) }

\* SourceRegistry::find_source: iter().find(|s| s.can_handle(url))
RECURSIVE FindSource(_, _, _)
FindSource(sources, url, wp) ==
    IF sources = <<>> THEN "None"
    ELSE IF CanHandle(Head(sources), url, wp) THEN Head(sources)
    ELSE FindSource(Tail(sources), url, wp)

\* the source found again from the feed's URL
FetchArticlesSourceByUrl(sources, feed) ==
    LET found == FindSource(sources, feed.url, FALSE)
    IN  IF found = "None" THEN "UnsupportedSource" ELSE found

\* SourceRegistry::fetch_articles: the source whose source_type() is the
\* feed's source_type, or Err(UnsupportedSource)
RECURSIVE FetchArticlesSource(_, _)
FetchArticlesSource(sources, feed) ==
    IF sources = <<>> THEN "UnsupportedSource"
    ELSE IF Head(sources) = feed.source_type THEN Head(sources)
    ELSE FetchArticlesSource(Tail(sources), feed)

RegFindSource ==
    /\ pc = "off" /\ spc = "off" /\ op.name = "none"
    /\ \E url \in Urls, wp \in BOOLEAN :
         op' = [name |-> "find_source", url |-> url, wp |-> wp,
                result |-> FindSource(SourceOrder, url, wp)]
    /\ UNCHANGED <<dbVars, everMarked, runVars, histVars, sendVars, sendAllVars, workVars>>

RegFetchArticles ==
    /\ pc = "off" /\ spc = "off" /\ op.name = "none"
    /\ \E url \in Urls, st \in Range(SourceOrder), sources \in Registries :
         LET feed == [url |-> url, source_type |-> st] IN
         op' = [name |-> "fetch_articles", feed |-> feed, sources |-> sources,
                used |-> FetchArticlesSource(sources, feed)]
    /\ UNCHANGED <<dbVars, everMarked, runVars, histVars, sendVars, sendAllVars, workVars>>

----------------------------------------------------------------------------
(* RssAtomSource: feed discovery. A URL is its parsed parts; port is "" when
   the URL names none; a URL that Url::parse rejects has scheme "". *)

FEED_PATTERNS ==
    <<"/feed/", "/index.xml", "/atom.xml", "/rss.xml", "/feed.xml", "/rss", "/feed",
      "/feeds/posts/default", "/.rss">>

SitePorts == {"", ":8080"}

SiteUrl(port, path) == [scheme |-> "https", host |-> "site", port |-> port, path |-> path]

\* the resources a web server can serve: the site's pages and pattern paths
Resources == { SiteUrl(p, q) : p \in SitePorts, q \in {"", "/blog"} \cup Range(FEED_PATTERNS) }

\* the URLs validate is called with
DiscoverInputs ==
    { SiteUrl(p, q) : p \in SitePorts, q \in {"", "/blog", "/feed/", "/rss"} }
    \cup {[scheme |-> "", host |-> "", port |-> "", path |-> "junk"]}

\* what a served resource answers: head is the HEAD request returning a
\* success status, feed is the GET body parsing as a feed
ResourceKinds == {[head |-> TRUE, feed |-> TRUE], [head |-> TRUE, feed |-> FALSE],
                  [head |-> FALSE, feed |-> TRUE]}

\* a web: the served resources, at most MaxServed of them, with their kinds
Webs ==
    UNION { [S -> ResourceKinds] : S \in { T \in SUBSET Resources : Cardinality(T) <= MaxServed } }

\* fetch_and_parse(url) is Ok
ParsesAsFeed(web, url) == url \in DOMAIN web /\ web[url].feed

\* client.head(url) returns a success status
HeadSucceeds(web, url) == url \in DOMAIN web /\ web[url].head

\* format!("{}://{}", parsed.scheme(), parsed.host_str()): the port is not in it
BaseUrl(url) == [scheme |-> url.scheme, host |-> url.host, port |-> ""]

\* the origin of a URL: scheme, host and port
Origin(url) == [scheme |-> url.scheme, host |-> url.host, port |-> url.port]

\* format!("{}{}", base_url, pattern)
WithPath(base, pattern) ==
    [scheme |-> base.scheme, host |-> base.host, port |-> base.port, path |-> pattern]

\* for pattern in FEED_PATTERNS: HEAD, then fetch_and_parse; Err(last_error)
\* after the last pattern
RECURSIVE ProbeLoop(_, _, _)
ProbeLoop(web, base, k) ==
    IF k > Len(FEED_PATTERNS) THEN [ok |-> FALSE, error |-> "FeedParse"]
    ELSE LET feed_url == WithPath(base, FEED_PATTERNS[k])
         IN  IF HeadSucceeds(web, feed_url) /\ ParsesAsFeed(web, feed_url)
             THEN [ok |-> TRUE, feed_url |-> feed_url]
             ELSE ProbeLoop(web, base, k + 1)

\* discover_feed_url, whose feed_url is what validate returns
DiscoverFeedUrl(web, url) ==
    IF ParsesAsFeed(web, url) THEN [ok |-> TRUE, feed_url |-> url]
    ELSE IF url.scheme = "" THEN [ok |-> FALSE, error |-> "InvalidUrl"]
    ELSE ProbeLoop(web, BaseUrl(url), 1)

\* RssAtomSource::validate(url) against a web
RssValidate ==
    /\ op.name = "none"
    /\ \E url \in DiscoverInputs, web \in Webs :
         op' = [name |-> "validate", url |-> url, web |-> web,
                result |-> DiscoverFeedUrl(web, url)]
    /\ UNCHANGED <<dbVars, everMarked, runVars, histVars, sendVars, sendAllVars, workVars>>

----------------------------------------------------------------------------
(* Store and service operations on arbitrary arguments *)

StoreKeys == { CacheKey(t, a) : t \in Titles, a \in Articles }

\* ArticleCacheRepository::mark_notified(cache_key, feed_id, title)
StoreMark ==
    /\ pc = "off" /\ spc = "off"
    /\ \E key \in StoreKeys, feed_id \in FeedIdArgs :
         LET r == MarkNotifiedRepo(notified, feedsTable, key, feed_id) IN
         /\ notified' = r.tbl
         /\ op' = [name |-> "mark_notified", key |-> key, feed_id |-> feed_id,
                   was_marked |-> IsNotified(notified, key), ok |-> r.ok]
         /\ everMarked' = IF r.ok THEN everMarked \cup {key} ELSE everMarked
    /\ UNCHANGED <<feedsTable, feedSeq, runVars, histVars, sendVars, sendAllVars, workVars>>

\* ArticleCacheRepository::get_unnotified(cache_keys)
StoreGetUnnotified ==
    /\ pc = "off" /\ spc = "off"
    /\ \E keys \in SeqsUpTo(StoreKeys, MaxKeys) :
         op' = [name |-> "get_unnotified", keys |-> keys,
                result |-> GetUnnotified(notified, keys)]
    /\ UNCHANGED <<dbVars, everMarked, runVars, histVars, sendVars, sendAllVars, workVars>>

\* ArticleCacheRepository::is_notified(cache_key)
StoreIsNotified ==
    /\ pc = "off" /\ spc = "off"
    /\ \E key \in StoreKeys :
         op' = [name |-> "is_notified", key |-> key, result |-> IsNotified(notified, key)]
    /\ UNCHANGED <<dbVars, everMarked, runVars, histVars, sendVars, sendAllVars, workVars>>

\* Article::cache_key(feed_title)
StoreCacheKey ==
    /\ pc = "off" /\ spc = "off"
    /\ \E t \in Titles, a \in Articles :
         op' = [name |-> "cache_key", title |-> t, id |-> a.id, key |-> CacheKey(t, a)]
    /\ UNCHANGED <<dbVars, everMarked, runVars, histVars, sendVars, sendAllVars, workVars>>

\* FetchService::fetch_unnotified(feed)
StoreFetchUnnotified ==
    /\ pc = "off" /\ spc = "off"
    /\ \E feed \in feedsTable, src \in SourceOutcomes :
         op' = [name |-> "fetch_unnotified", feed |-> feed, src |-> src,
                result |-> FetchUnnotified(notified, feed, src)]
    /\ UNCHANGED <<dbVars, everMarked, runVars, histVars, sendVars, sendAllVars, workVars>>

----------------------------------------------------------------------------
(* Sources: from the entries of a parsed feed document to articles and
   notifications. An Option is a sequence of length 0 (None) or 1 (Some). *)

TitleChars == Chars \cup {" "}

\* what feed_rs parsed for one entry: title and content are "" when absent
Entries ==
    [id : {<<"a">>}, title : {<<>>, <<"n">>}, content : SeqsUpTo(TitleChars, MaxLen),
     links : {<<>>, << <<"l">> >>}, published : {<<>>, <<"d">>}]

\* text.split_whitespace().collect::<Vec<_>>().join(" ") on extracted text
RECURSIVE CollapseWhitespace(_)
CollapseWhitespace(str) ==
    IF str = <<>> THEN <<>>
    ELSE IF Head(str) = " " THEN CollapseWhitespace(Tail(str))
    ELSE LET rest == Tail(str) IN
         IF rest = <<>> THEN <<Head(str)>>
         ELSE IF Head(rest) = " "
              THEN LET more == CollapseWhitespace(rest) IN
                   IF more = <<>> THEN <<Head(str)>> ELSE <<Head(str), " ">> \o more
              ELSE <<Head(str)>> \o CollapseWhitespace(rest)

\* MastodonSource::html_to_text, on content whose markup is already removed
HtmlToText(html) == CollapseWhitespace(html)

\* &text[..end] with end a byte index: the characters before it, or a panic
\* when end is inside a character
ByteSlice(str, end) ==
    LET ks == { k \in 0..Len(str) : ByteLen(SubSeq(str, 1, k)) = end } IN
    IF ks = {} THEN [panic |-> TRUE, value |-> <<>>]
    ELSE [panic |-> FALSE, value |-> SubSeq(str, 1, CHOOSE k \in ks : TRUE)]

\* the slice taken at the last character boundary at or before end
ByteSliceFloor(str, end) ==
    LET ks == { k \in 0..Len(str) : ByteLen(SubSeq(str, 1, k)) <= end } IN
    [panic |-> FALSE, value |-> SubSeq(str, 1, CHOOSE k \in ks : \A j \in ks : j <= k)]

\* str.rfind(' '): the positions of the spaces of str
Spaces(str) == { i \in 1..Len(str) : str[i] = " " }

\* MastodonSource::truncate_for_title(text, max_len); text.len() is in bytes
truncate_for_title(text, max_len) ==
    IF ByteLen(text) <= max_len THEN [panic |-> FALSE, value |-> text]
    ELSE LET head == ByteSlice(text, max_len) IN
         IF head.panic THEN head
         ELSE IF Spaces(head.value) # {}
         THEN LET pos == CHOOSE i \in Spaces(head.value) :
                             \A j \in Spaces(head.value) : j <= i
              IN  [panic |-> FALSE,
                   value |-> SubSeq(text, 1, pos - 1) \o <<".", ".", ".">>]
         ELSE [panic |-> FALSE, value |-> head.value \o <<".", ".", ".">>]

\* Article::new(id, title).with_links(links).with_published(published)
ArticleNew(id, title, links, published) ==
    [id |-> id, title |-> title, content |-> <<>>, links |-> links,
     published |-> published]

\* the mapping of an entry with the content handed to with_content
RssArticleWithContent(entry) ==
    [id |-> entry.id,
     title |-> IF entry.title = <<>> THEN <<"U">> ELSE entry.title,
     content |-> IF entry.content = <<>> THEN <<>> ELSE <<entry.content>>,
     links |-> entry.links, published |-> entry.published]

\* the closure of RssAtomSource::fetch_articles: "Untitled" ("U") without a title
RssArticle(entry) ==
    ArticleNew(entry.id, IF entry.title = <<>> THEN <<"U">> ELSE entry.title,
               entry.links, entry.published)

\* the closure of MastodonSource::fetch_articles: a title-less post gets its
\* text, cut to TitleLen, as title
MastodonArticle(entry) ==
    IF entry.title # <<>>
    THEN [panic |-> FALSE,
          article |-> ArticleNew(entry.id, entry.title, entry.links, entry.published)]
    ELSE LET text == HtmlToText(entry.content)
             t == IF text = <<>> THEN [panic |-> FALSE, value |-> <<"U">>]
                  ELSE truncate_for_title(text, TitleLen)
         IN  [panic |-> t.panic,
              article |-> ArticleNew(entry.id, t.value, entry.links, entry.published)]

\* FeedSource::fetch_articles of the source of a kind on a parsed document:
\* YouTube, WordPress and Blogger hand over to their rss_source
RECURSIVE SourceFetchArticles(_, _)
SourceFetchArticles(kind, entries) ==
    IF entries = <<>> THEN [panic |-> FALSE, articles |-> <<>>]
    ELSE LET a == IF kind = "Mastodon" THEN MastodonArticle(Head(entries))
                  ELSE [panic |-> FALSE, article |-> RssArticle(Head(entries))]
             rest == SourceFetchArticles(kind, Tail(entries))
         IN  IF a.panic \/ rest.panic THEN [panic |-> TRUE, articles |-> <<>>]
             ELSE [panic |-> FALSE, articles |-> <<a.article>> \o rest.articles]

\* Notification::from_article
FromArticle(feed_title, article) ==
    [feed_title |-> feed_title, article_title |-> article.title,
     text |-> IF article.content = <<>> THEN <<>> ELSE article.content[1],
     links |-> article.links]

\* fetch_articles of one source kind on a document, and the notifications
\* cmd_run builds from what it returns
SrcFetchArticles ==
    /\ op.name = "none"
    /\ \E kind \in Range(SourceOrder), entries \in SeqsUpTo(Entries, 1) :
         LET r == SourceFetchArticles(kind, entries) IN
         op' = [name |-> "fetch_articles", kind |-> kind, entries |-> entries,
                panic |-> r.panic, articles |-> r.articles,
                built |-> [i \in 1..Len(r.articles) |->
                              FromArticle(<<"T">>, r.articles[i])]]
    /\ UNCHANGED <<dbVars, everMarked, runVars, histVars, sendVars, sendAllVars, workVars>>

\* MastodonSource::truncate_for_title on any text and length
SrcTruncate ==
    /\ op.name = "none"
    /\ \E text \in SeqsUpTo(TitleChars, MaxLen), max_len \in 0..MaxLen :
         op' = [name |-> "truncate_for_title", text |-> text, max_len |-> max_len,
                result |-> truncate_for_title(text, max_len)]
    /\ UNCHANGED <<dbVars, everMarked, runVars, histVars, sendVars, sendAllVars, workVars>>

----------------------------------------------------------------------------
(* OPML import: the outlines of a document and their feed URLs *)

UrlChars == {"@", "u", "/"}

\* the xmlUrl attribute: absent, empty, a Mastodon handle, other URLs
XmlUrls ==
    {<<>>, << <<>> >>, << <<"@", "u", "@", "u", "/">> >>, << <<"u", "/", "@", "u">> >>}

\* the bodies of at most n outlines in all, nested in any way
RECURSIVE Outlines(_)
Outlines(n) ==
    IF n = 0 THEN {<<>>}
    ELSE {<<>>} \cup
         UNION { { <<[xml_url |-> x, outlines |-> c]>> \o r :
                     x \in XmlUrls, c \in Outlines(k), r \in Outlines(n - 1 - k) } :
                 k \in 0..(n - 1) }

\* the position of the first "@" of str after position 1 (0 when there is none)
SecondAt(str) ==
    LET ats == { i \in 2..Len(str) : str[i] = "@" } IN
    IF ats = {} THEN 0 ELSE CHOOSE i \in ats : \A j \in ats : i <= j

\* normalize_url: a match of ^@([^@]+)@(.+)$ gives https://{2}/@{1}
NormalizeUrl(url) ==
    LET at == SecondAt(url) IN
    IF url # <<>> /\ Head(url) = "@" /\ at > 2 /\ at < Len(url)
    THEN <<"https://">> \o SubSeq(url, at + 1, Len(url))
         \o <<"/", "@">> \o SubSeq(url, 2, at - 1)
    ELSE url

\* the extraction of the top-level outlines only
RECURSIVE ExtractFeedUrlsFlat(_)
ExtractFeedUrlsFlat(outlines) ==
    IF outlines = <<>> THEN <<>>
    ELSE LET outline == Head(outlines)
             own == IF outline.xml_url # <<>> /\ outline.xml_url[1] # <<>>
                    THEN <<NormalizeUrl(outline.xml_url[1])>> ELSE <<>>
         IN  own \o ExtractFeedUrlsFlat(Tail(outlines))

\* extract_feed_urls: for each outline its own URL, when it has a non-empty
\* xml_url, then the URLs of its child outlines
RECURSIVE ExtractFeedUrls(_)
ExtractFeedUrls(outlines) ==
    IF outlines = <<>> THEN <<>>
    ELSE LET outline == Head(outlines)
             own == IF outline.xml_url # <<>> /\ outline.xml_url[1] # <<>>
                    THEN <<NormalizeUrl(outline.xml_url[1])>> ELSE <<>>
         IN  own \o ExtractFeedUrls(outline.outlines) \o ExtractFeedUrls(Tail(outlines))

\* extract_feed_urls on the body of a document
OpmlExtract ==
    /\ op.name = "none"
    /\ \E outlines \in Outlines(MaxOutlines) :
         op' = [name |-> "extract_feed_urls", outlines |-> outlines,
                result |-> ExtractFeedUrls(outlines)]
    /\ UNCHANGED <<dbVars, everMarked, runVars, histVars, sendVars, sendAllVars, workVars>>

\* normalize_url on any string
OpmlNormalize ==
    /\ op.name = "none"
    /\ \E url \in SeqsUpTo(UrlChars, MaxLen) :
         op' = [name |-> "normalize_url", url |-> url, result |-> NormalizeUrl(url)]
    /\ UNCHANGED <<dbVars, everMarked, runVars, histVars, sendVars, sendAllVars, workVars>>

----------------------------------------------------------------------------
(* Workers: threads that share one SqliteStorage (a clone of the
   Arc<Mutex<Connection>>) and call the article cache repository. A call locks
   the connection, executes its statement and drops the guard when it returns. *)

Workers == 1..MaxWorkers

IdleWorker ==
    [pc |-> "idle", call |-> "none", key |-> <<>>, feed_id |-> 0, seen |-> FALSE,
     raced |-> FALSE, result |-> "none"]

\* the cache keys of the persisted feeds' articles
WorkKeys == { CacheKey(f.title, a) : f \in feedsTable, a \in Articles }

\* a connection whose lock() returns whoever holds the guard
CanLockUnguarded(holder) == TRUE

\* self.conn.lock(): returns when no other thread holds the guard
CanLock(holder) == holder = 0

\* a worker calls mark_notified(cache_key, feed_id, title) for an article of a
\* persisted feed, or is_notified(cache_key)
WorkCall(w) ==
    /\ pc = "off" /\ spc = "off"
    /\ workers[w].pc = "idle"
    /\ \/ \E key \in WorkKeys, f \in feedsTable :
            workers' = [workers EXCEPT ![w] =
                [pc |-> "waiting", call |-> "mark_notified", key |-> key,
                 feed_id |-> f.id, seen |-> FALSE,
                 raced |-> \E v \in Workers \ {w} :
                              /\ workers[v].pc \in {"waiting", "locked", "checked"}
                              /\ workers[v].call = "mark_notified"
                              /\ workers[v].key = key,
                 result |-> "none"]]
       \/ \E key \in WorkKeys :
            workers' = [workers EXCEPT ![w] =
                [pc |-> "waiting", call |-> "is_notified", key |-> key,
                 feed_id |-> 0, seen |-> FALSE,
                 raced |-> \E v \in Workers \ {w} :
                              /\ workers[v].pc \in {"waiting", "locked", "checked"}
                              /\ workers[v].call = "mark_notified"
                              /\ workers[v].key = key,
                 result |-> "none"]]
    /\ UNCHANGED <<conn, dbVars, runVars, histVars, storeVars, sendVars, sendAllVars>>

\* let conn = self.storage.connection()?
WorkLock(w) ==
    /\ workers[w].pc = "waiting"
    /\ CanLock(conn)
    /\ conn' = w
    /\ workers' = [workers EXCEPT ![w].pc = "locked"]
    /\ UNCHANGED <<dbVars, runVars, histVars, storeVars, sendVars, sendAllVars>>

\* INSERT OR IGNORE, first half: the lookup of cache_key in the UNIQUE index
WorkMarkCheck(w) ==
    /\ workers[w].pc = "locked" /\ workers[w].call = "mark_notified"
    /\ workers' = [workers EXCEPT ![w].pc = "checked",
                                  ![w].seen = IsNotified(notified, workers[w].key)]
    /\ UNCHANGED <<conn, dbVars, runVars, histVars, storeVars, sendVars, sendAllVars>>

\* INSERT OR IGNORE, second half: nothing on a conflict, an error when feed_id
\* has no row in feeds, else the row is written; then mark_notified returns and
\* the guard is dropped
WorkMarkWrite(w) ==
    /\ workers[w].pc = "checked"
    /\ LET me == workers[w]
           fk == \E f \in feedsTable : f.id = me.feed_id
           ok == me.seen \/ fk
       IN  /\ notified' = IF ~me.seen /\ fk
                          THEN notified (+) SetToBag({NotifiedRow(me.key, me.feed_id)})
                          ELSE notified
           /\ everMarked' = IF ok THEN everMarked \cup {me.key} ELSE everMarked
           /\ workers' = [workers EXCEPT ![w].pc = "idle",
                                         ![w].result = IF ok THEN "ok" ELSE "err_database"]
    /\ conn' = 0
    /\ UNCHANGED <<feedsTable, feedSeq, op, runVars, histVars, sendVars, sendAllVars>>

\* is_notified: SELECT EXISTS(...), then the guard is dropped
WorkIsNotified(w) ==
    /\ workers[w].pc = "locked" /\ workers[w].call = "is_notified"
    /\ workers' = [workers EXCEPT ![w].pc = "idle",
                                  ![w].result = IF IsNotified(notified, workers[w].key)
                                                THEN "true" ELSE "false"]
    /\ conn' = 0
    /\ UNCHANGED <<dbVars, runVars, histVars, storeVars, sendVars, sendAllVars>>

----------------------------------------------------------------------------
(* Values of the variables a specification does not use *)

RunOff ==
    /\ pc = "off" /\ dry_run = FALSE /\ skip_notify = FALSE
    /\ results = <<>> /\ fi = 1 /\ ai = 1
    /\ send_calls = 0 /\ modes = {}
    /\ notified_articles = <<>> /\ runResult = "none"
    /\ listing = GetAllErr /\ fetched = NoFetch /\ sentOk = NoSends
    /\ sendFailed = {} /\ prevFailed = {} /\ committed = {}

StoreOff == op = [name |-> "none"] /\ everMarked = {}

SendOff ==
    /\ notification = [feed_title |-> <<>>, article_title |-> <<>>,
                       text |-> <<>>, links |-> <<>>]
    /\ tr = [kind |-> "any", N |-> 0]
    /\ spc = "off" /\ high = 0 /\ attempts = <<>> /\ answers = <<>> /\ sresult = "none"

SendAllOff ==
    /\ notifications = <<>> /\ ni = 1 /\ errors = <<>> /\ sapc = "off" /\ outcomes = <<>>

WorkOff == conn = 0 /\ workers = [w \in Workers |-> IdleWorker]

\* two persisted feeds (two successful adds), nothing notified yet
TwoFeeds ==
    /\ \E t1, t2 \in Titles, c2 \in Times :
         feedsTable = { [id |-> 1, url |-> "u1", title |-> t1, created_at |-> 1],
                        [id |-> 2, url |-> "u2", title |-> t2, created_at |-> c2] }
    /\ notified = EmptyBag /\ feedSeq = 2

----------------------------------------------------------------------------
(* Spec: runs of the command over two persisted feeds *)

RunIdle ==
    /\ pc = "idle" /\ dry_run = FALSE /\ skip_notify = FALSE
    /\ results = <<>> /\ fi = 1 /\ ai = 1
    /\ notified_articles = <<>> /\ runResult = "none"
    /\ listing = GetAllErr /\ fetched = NoFetch /\ sentOk = NoSends
    /\ sendFailed = {} /\ prevFailed = {} /\ committed = {}
    /\ send_calls = 0

\* runs with and without --dry-run
Init ==
    /\ TwoFeeds
    /\ modes = {<<FALSE, FALSE>>, <<TRUE, FALSE>>}
    /\ RunIdle
    /\ StoreOff
    /\ SendOff
    /\ SendAllOff
    /\ WorkOff

Next == RunFetch \/ RunPrepare \/ SendArticle \/ FinishFeed

Spec == Init /\ [][Next]_vars

----------------------------------------------------------------------------
(* StoreSpec: store and service operations in any order *)

StoreInit ==
    /\ \E t1, t2 \in Titles :
         feedsTable = { [id |-> 1, url |-> "u1", title |-> t1, created_at |-> 1],
                        [id |-> 2, url |-> "u2", title |-> t2, created_at |-> 1] }
    /\ notified = EmptyBag /\ feedSeq = 2
    /\ WorkOff /\ RunOff /\ StoreOff /\ SendOff /\ SendAllOff

StoreNext ==
    \/ StoreMark
    \/ StoreGetUnnotified
    \/ StoreIsNotified
    \/ StoreFetchUnnotified
    \/ StoreCacheKey

StoreSpec == StoreInit /\ [][StoreNext]_vars

----------------------------------------------------------------------------
(* SendSpec: one send of a notification against a transport *)

Notifications ==
    [feed_title : {<<"T">>}, article_title : {<<"n">>},
     text : SeqsUpTo(Chars, MaxLen),
     links : {<<>>, << <<"l">> >>, << <<"l">>, <<"m">> >>}]

SendInit ==
    /\ feedsTable = {} /\ notified = EmptyBag /\ feedSeq = 0
    /\ WorkOff /\ RunOff /\ StoreOff /\ SendAllOff
    /\ notification \in Notifications
    /\ tr \in Transports
    /\ spc = "first" /\ high = 0 /\ attempts = <<>> /\ answers = <<>> /\ sresult = "none"

SendNext == SendFirst \/ SendRetry \/ SendFinal

SendSpec == SendInit /\ [][SendNext]_vars

\* send is a sequential loop of blocking calls: a started send runs to its return
SendFairSpec == SendSpec /\ WF_vars(SendNext)

----------------------------------------------------------------------------
(* ModeSpec: runs with every combination of --dry-run and --skip-notify, over
   two feeds added at the same second, titled "T" and "T:a" *)

ModeInit ==
    /\ feedsTable = { [id |-> 1, url |-> "u1", title |-> <<"T">>, created_at |-> 1],
                      [id |-> 2, url |-> "u2", title |-> <<"T", ":", "a">>,
                       created_at |-> 1] }
    /\ notified = EmptyBag /\ feedSeq = 2
    /\ modes = BOOLEAN \X BOOLEAN
    /\ RunIdle
    /\ StoreOff /\ SendOff /\ SendAllOff /\ WorkOff

ModeSpec == ModeInit /\ [][Next]_vars

----------------------------------------------------------------------------
(* SendAllSpec: one send_all of a slice of notifications, any transport *)

BatchNotifications ==
    [feed_title : {<<"T">>}, article_title : {<<"n">>},
     text : {<<>>, <<"x", "x">>}, links : {<<>>}]

SendAllInit ==
    /\ feedsTable = {} /\ notified = EmptyBag /\ feedSeq = 0
    /\ WorkOff /\ RunOff /\ StoreOff /\ SendOff
    /\ notifications \in SeqsUpTo(BatchNotifications, MaxBatch)
    /\ ni = 1 /\ errors = <<>> /\ sapc = "loop" /\ outcomes = <<>>

SendAllNext == SendAllLoop \/ SendFirst \/ SendRetry \/ SendFinal \/ SendAllCollect

SendAllSpec == SendAllInit /\ [][SendAllNext]_vars

----------------------------------------------------------------------------
(* RegistrySpec: find_source and fetch_articles on arbitrary URLs and feeds *)

RegistryInit ==
    /\ feedsTable = {} /\ notified = EmptyBag /\ feedSeq = 0
    /\ WorkOff /\ RunOff /\ StoreOff /\ SendOff /\ SendAllOff

RegistryNext == RegFindSource \/ RegFetchArticles

RegistrySpec == RegistryInit /\ [][RegistryNext]_vars

----------------------------------------------------------------------------
(* FeedSpec: add, import and remove on an empty database *)

FeedInit ==
    /\ feedsTable = {} /\ notified = EmptyBag /\ feedSeq = 0
    /\ WorkOff /\ RunOff /\ StoreOff /\ SendOff /\ SendAllOff

FeedNext == FeedAdd \/ FeedRemove \/ FeedImport \/ FeedList

FeedSpec == FeedInit /\ [][FeedNext]_vars

----------------------------------------------------------------------------
(* RemoveSpec: marks, queries and removals on two persisted feeds *)

RemoveNext == StoreMark \/ StoreIsNotified \/ FeedRemove

RemoveSpec == StoreInit /\ [][RemoveNext]_vars

----------------------------------------------------------------------------
(* DiscoverSpec: one validate of the generic source against a web *)

DiscoverNext == RssValidate

DiscoverSpec == RegistryInit /\ [][DiscoverNext]_vars

----------------------------------------------------------------------------
(* SourceSpec: one fetch_articles, or one truncate_for_title, on any document *)

SourceNext == SrcFetchArticles \/ SrcTruncate

SourceSpec == RegistryInit /\ [][SourceNext]_vars

----------------------------------------------------------------------------
(* OpmlSpec: one extraction, or one normalization, on any document *)

OpmlNext == OpmlExtract \/ OpmlNormalize

OpmlSpec == RegistryInit /\ [][OpmlNext]_vars

----------------------------------------------------------------------------
(* WorkSpec: workers marking and querying the store of two feeds that share
   their title, and so their cache keys *)

WorkInit ==
    /\ feedsTable = { [id |-> 1, url |-> "u1", title |-> <<"T">>, created_at |-> 1],
                      [id |-> 2, url |-> "u2", title |-> <<"T">>, created_at |-> 1] }
    /\ notified = EmptyBag /\ feedSeq = 2
    /\ WorkOff /\ RunOff /\ StoreOff /\ SendOff /\ SendAllOff

WorkNext ==
    \E w \in Workers :
        WorkCall(w) \/ WorkLock(w) \/ WorkMarkCheck(w) \/ WorkMarkWrite(w) \/ WorkIsNotified(w)

WorkSpec == WorkInit /\ [][WorkNext]_vars

----------------------------------------------------------------------------
(* Properties *)

FeedTitle(f) == (CHOOSE r \in feedsTable : r.id = f).title

PairKey(p) == CacheKey(FeedTitle(p[1]), [id |-> p[2]])

\* the articles whose only sends in the last (idle) or current run failed
OnlyFailed ==
    IF pc = "idle" THEN prevFailed ELSE { p \in sendFailed : sentOk[p] = 0 }

MarkedKeys == { r.cache_key : r \in BagToSet(notified) }

\* C1: across normal runs a given article of a feed (same article id) is
\* delivered at most once: a step that delivers it finds it not yet delivered
\* in this run and not delivered-and-committed before.
C1_DeliveredAtMostOnce ==
    [][\A p \in Pairs :
         sentOk'[p] > sentOk[p] => (sentOk[p] = 0 /\ p \notin committed)]_vars

\* C2: in a run, an article fetched as new whose cache key is now in the Dedup
\* Store (so this run committed it) has had a send of its own return success
\* in this run; failed or unattempted articles are not marked.
C2_MarkedOnlyAfterOwnSend ==
    pc = "loop" =>
        \A i \in 1..Len(results) : \A k \in 1..Len(results[i].new_articles) :
            LET feed == results[i].feed
                a == results[i].new_articles[k]
            IN  IsNotified(notified, CacheKey(feed.title, a))
                    => sentOk[<<feed.id, a.id>>] >= 1

\* C3: an article whose send failed (and never succeeded) is not marked
\* notified, and the next run's fetch_unnotified returns it again when the
\* source still lists it.
C3_FailedIsRetried ==
    /\ \A p \in OnlyFailed : ~IsNotified(notified, PairKey(p))
    /\ pc \in {"fetched", "loop"} =>
         \A i \in 1..Len(results) :
            LET feed == results[i].feed IN
            results[i].error = "None" =>
               \A a \in Range(fetched[feed.id].articles) :
                  <<feed.id, a.id>> \in prevFailed
                      => a \in Range(results[i].new_articles)

C6_MarkIdempotent ==
    [][(op'.name = "mark_notified" /\ IsNotified(notified, op'.key)) =>
          /\ op'.ok
          /\ notified' = notified
          /\ RowCount(notified', op'.key) = 1
          /\ { r.cache_key : r \in BagToSet(notified') } = MarkedKeys]_vars

C6_Witness ==
    op.name = "mark_notified" /\ op.was_marked /\ op.ok /\ RowCount(notified, op.key) = 1

\* what makes fetch_unnotified fail for a feed
SourceFails(src) == src.kind = "fetch_err" \/ (src.kind = "db_err" /\ src.articles # <<>>)

Delivered == attempts[Len(attempts)].text

\* C8: against a transport that rejects exactly the body texts longer than N
\* characters, send ends, with success, having delivered at most N characters.
C8_TruncationConverges ==
    (tr.kind = "limit") ~>
        (spc = "done" /\ sresult = "ok" /\ Len(Delivered) <= tr.N)

C8_Witness ==
    /\ tr.kind = "limit" /\ spc = "done" /\ sresult = "ok"
    /\ Len(notification.text) > tr.N
    /\ Len(attempts) >= 3
    /\ Len(Delivered) <= tr.N

\* C9: against such a transport the delivered text has exactly min(L, N)
\* characters, the longest prefix that fits.
C9_LongestPrefix ==
    (spc = "done" /\ tr.kind = "limit") =>
        /\ sresult = "ok"
        /\ Len(Delivered) = Min(Len(notification.text), tr.N)

RECURSIVE Log2(_)
Log2(n) == IF n <= 1 THEN 0 ELSE 1 + Log2(n \div 2)

\* C10: one send makes at most floor(log2(L)) + 3 attempts (2 when L = 0), L
\* being the number of characters of the body text.
C10_AttemptsBound ==
    Len(attempts) <=
        (IF Len(notification.text) = 0 THEN 2 ELSE Log2(Len(notification.text)) + 3)

AllTooLarge == \A i \in 1..Len(answers) : answers[i] = "too_large"

\* C11: when every attempt is size-rejected, send comes to a last attempt with
\* an empty text and, that one rejected too, returns the error; it returns Ok
\* only after an accepted attempt and makes no attempt after the last one.
C11_FinalAttempt ==
    /\ [](/\ (spc = "done" /\ sresult = "ok") =>
                (answers # <<>> /\ answers[Len(answers)] = "ok")
          /\ spc = "final" => (AllTooLarge /\ high = 0)
          /\ (spc = "done" /\ AllTooLarge) =>
                (sresult = "err_too_large" /\ Delivered = <<>>))
    /\ [][spc = "final" =>
            /\ spc' = "done"
            /\ Len(attempts') = Len(attempts) + 1
            /\ attempts'[Len(attempts')].text = <<>>]_vars
    /\ [][spc = "done" => attempts' = attempts]_vars

C11_Witness ==
    /\ spc = "done" /\ AllTooLarge /\ sresult = "err_too_large"
    /\ Len(attempts) >= 3 /\ Delivered = <<>>

\* C12: an answer other than Ok and PayloadTooLarge, to the first attempt or to
\* a retry, is the last answer of the send and is what send returns; every
\* answer followed by another attempt is a PayloadTooLarge.
C12_OtherErrorsReturn ==
    /\ Len(attempts) = Len(answers)
    /\ \A i \in 1..Len(answers) :
         /\ answers[i] = "error" =>
               (i = Len(answers) /\ spc = "done" /\ sresult = "err_transport")
         /\ i < Len(answers) => answers[i] = "too_large"

C12_Witness ==
    /\ spc = "done" /\ sresult = "err_transport"
    /\ Len(answers) >= 2 /\ answers[Len(answers)] = "error"
    /\ attempts[Len(attempts)].text # <<>>

\* each link preceded by one space
RECURSIVE SpacedLinks(_)
SpacedLinks(links) ==
    IF links = <<>> THEN <<>>
    ELSE <<" ">> \o Head(links) \o SpacedLinks(Tail(links))

\* the message the rule gives for a body text
RuleMessage(text) ==
    LET head == notification.feed_title \o <<" ">> \o notification.article_title
        body == IF Len(text) = 0 THEN head ELSE head \o <<":", " ">> \o text
    IN  IF Len(notification.links) = 0 THEN body
        ELSE body \o SpacedLinks(notification.links)

\* C13: the message of every attempt of a send, the first and each retry, is
\* feed title, space, article title, then ": " and the text when the text is
\* not empty, then a space and the links joined by spaces when there are links.
C13_FormatRule ==
    \A i \in 1..Len(attempts) : attempts[i].message = RuleMessage(attempts[i].text)

C13_Witness ==
    /\ spc = "done" /\ Len(attempts) >= 3
    /\ Len(notification.links) = 2
    /\ attempts[1].text # <<>> /\ attempts[2].text # <<>>
    /\ attempts[2].text # attempts[1].text
    /\ Delivered = <<>>

\* the failures among the first n sends, in order
RECURSIVE FailuresOf(_, _)
FailuresOf(outs, n) ==
    IF n = 0 THEN <<>>
    ELSE FailuresOf(outs, n - 1)
         \o (IF outs[n].result = "ok" THEN <<>>
             ELSE << [error |-> outs[n].result, of |-> n] >>)

\* C14: send_all sends every notification of the slice, in the slice's order,
\* whatever the earlier sends returned, and returns the errors of exactly the
\* failed sends, in that order.
C14_SendAllNoAbort ==
    /\ \A k \in 1..Len(outcomes) :
          outcomes[k].of = k /\ outcomes[k].notification = notifications[k]
    /\ sapc = "done" =>
          /\ Len(outcomes) = Len(notifications)
          /\ errors = FailuresOf(outcomes, Len(outcomes))

C14_Witness ==
    /\ sapc = "done" /\ Len(notifications) = 2
    /\ outcomes[1].result # "ok" /\ outcomes[2].result = "ok"
    /\ Len(errors) = 1

\* the hosts of YouTube itself
YouTubeHosts == { <<"youtube.com">>, <<"www.", "youtube.com">>,
                  <<"youtu.be">>, <<"www.", "youtu.be">> }

\* scheme://host/@user
IsProfileUrl(url, hosts) ==
    \E sch \in Schemes, h \in hosts : url = <<sch>> \o h \o <<"/@", "user">>

\* C15: find_source gives the first source, in the order YouTube, Mastodon,
\* Blogger, WordPress, generic, that can handle the URL; a profile URL
\* https://host/@user of a host that is not YouTube's gives Mastodon, a /@ URL
\* of youtube.com gives YouTube, and the generic source is given only when no
\* other source can handle the URL.
C15_FindSourcePriority ==
    op.name = "find_source" =>
        /\ \E i \in 1..Len(SourceOrder) :
              /\ op.result = SourceOrder[i]
              /\ CanHandle(SourceOrder[i], op.url, op.wp)
              /\ \A k \in 1..(i - 1) : ~CanHandle(SourceOrder[k], op.url, op.wp)
        /\ IsProfileUrl(op.url, Hosts \ YouTubeHosts) => op.result = "Mastodon"
        /\ IsProfileUrl(op.url, {<<"youtube.com">>, <<"www.", "youtube.com">>})
              => op.result = "YouTube"
        /\ op.result = "RssAtom" =>
              \A k \in 1..(Len(SourceOrder) - 1) : ~CanHandle(SourceOrder[k], op.url, op.wp)

\* C16: fetch_articles uses the source of the feed's stored source type,
\* whatever find_source gives for the feed's URL, and fails with
\* UnsupportedSource when no such source is registered.
C16_FetchByStoredKind ==
    op.name = "fetch_articles" =>
        op.used = IF \E i \in 1..Len(op.sources) : op.sources[i] = op.feed.source_type
                  THEN op.feed.source_type
                  ELSE "UnsupportedSource"

C16_Witness ==
    /\ op.name = "fetch_articles"
    /\ op.sources = SourceOrder
    /\ FindSource(op.sources, op.feed.url, FALSE) = "Mastodon"
    /\ op.feed.source_type = "RssAtom"
    /\ op.used = "RssAtom"

\* C17: cache_key is a function of (title, id) and gives different keys to
\* different pairs: of two keys computed one after the other, the keys are
\* equal exactly when title and id both are.
C17_CacheKeyInjective ==
    [][(op.name = "cache_key" /\ op'.name = "cache_key") =>
          ((op'.key = op.key) <=> (op'.title = op.title /\ op'.id = op.id))]_vars

InRun == pc \in {"fetched", "loop"}

\* what a run started now, with the listing and the source answers of the
\* current run, would report after this step
NextReport == FetchAllUnnotified(notified', listing, fetched).results

\* C18: a run with --dry-run alone calls send for no article and leaves the
\* notified_articles table as it is at every step; when it returns, a run over
\* the same listing and source answers reports the same new articles.
C18_DryRunNoEffect ==
    /\ []((InRun /\ dry_run /\ ~skip_notify) => send_calls = 0)
    /\ [][(InRun /\ dry_run /\ ~skip_notify) =>
            /\ notified' = notified
            /\ pc' = "idle" => NextReport = results]_vars

C18_Witness ==
    /\ pc = "loop" /\ dry_run /\ ~skip_notify
    /\ fi = Len(results) /\ ai > Len(results[fi].new_articles)
    /\ results[fi].new_articles # <<>>
    /\ notified # EmptyBag
    /\ send_calls = 0

C20_UrlUnique ==
    /\ [](\A f, g \in feedsTable : f.url = g.url => f = g)
    /\ [][(op'.name = "add" /\ op' # op /\ \E f \in feedsTable : f.url = op'.url) =>
            /\ op'.result = "FeedAlreadyExists"
            /\ UNCHANGED dbVars]_vars

C20_Witness ==
    /\ op.name = "add" /\ op.result = "FeedAlreadyExists"
    /\ Cardinality(feedsTable) = 2
    /\ feedSeq = 3


\* C21: a remove of feed id deletes every notified_articles row written under
\* id, so that each of their cache keys is reported as not notified right after
\* it; the rows of every other feed id are kept as they were, no row appears,
\* and the feeds table loses the row of id and no other.
C21_RemoveCascades ==
    [][op'.name = "remove" =>
         LET id == op'.id IN
         /\ \A r \in BagToSet(notified) :
              r.feed_id = id => ~IsNotified(notified', r.cache_key)
         /\ \A r \in BagToSet(notified) :
              r.feed_id # id => r \in BagToSet(notified') /\ notified'[r] = notified[r]
         /\ BagToSet(notified') \subseteq BagToSet(notified)
         /\ feedsTable' = { f \in feedsTable : f.id # id }]_vars

\* feed 1 was removed after a key was marked under it, while feed 2 keeps a row
C21_Witness ==
    /\ op.name = "remove" /\ op.id = 1
    /\ \E k \in everMarked : ~IsNotified(notified, k)
    /\ \E r \in BagToSet(notified) : r.feed_id = 2
    /\ \E f \in feedsTable : f.id = 2

\* number of occurrences of x in the sequence s
Occurrences(s, x) == Cardinality({ i \in 1..Len(s) : s[i] = x })

\* what the claim says of an import over urls that returned res, on a table
\* whose urls were before and are after; vals[i] says whether urls[i] passes
\* validation and persistence
Collected(urls, vals, res, before, after) ==
    LET passes(i) == vals[i].db = "ok" /\ vals[i].v.ok
        persisted(i) == urls[i] \in before
                        \/ \E j \in 1..(i - 1) : urls[j] = urls[i] /\ passes(j)
        dup == SelectSeq([i \in 1..Len(urls) |-> [i |-> i, u |-> urls[i]]],
                         LAMBDA x : persisted(x.i))
        add == SelectSeq([i \in 1..Len(urls) |-> [i |-> i, u |-> urls[i]]],
                         LAMBDA x : ~persisted(x.i) /\ passes(x.i))
        inv == SelectSeq([i \in 1..Len(urls) |-> [i |-> i, u |-> urls[i]]],
                         LAMBDA x : ~persisted(x.i) /\ ~passes(x.i))
    IN  /\ res.duplicates = [k \in 1..Len(dup) |-> dup[k].u]
        /\ res.added = [k \in 1..Len(add) |-> add[k].u]
        /\ res.invalid = [k \in 1..Len(inv) |-> inv[k].u]
        /\ \A u \in Range(urls) :
             Occurrences(urls, u) =
               Occurrences(res.added, u) + Occurrences(res.duplicates, u)
                 + Occurrences(res.invalid, u)
        /\ \A u \in Range(res.added) : u \notin before /\ Occurrences(res.added, u) = 1
        /\ after = before \cup Range(res.added)

\* C22: every import goes through all the extracted URLs and returns its
\* report, whatever fails for one URL; in the report each URL occurrence is in
\* exactly one of added, duplicates and invalid, and a URL that had a row, or
\* got one earlier in the import, is a duplicate and is not added again.
C22_ImportCollects ==
    [][(op'.name = "import" /\ op' # op) =>
         /\ op'.ok
         /\ Collected(op'.urls, op'.vals, op'.result, { f.url : f \in feedsTable },
                      { f.url : f \in feedsTable' })]_vars

\* the candidates of the claim, in probe order: origin(url) + suffix
RECURSIVE FirstCandidate(_, _, _)
FirstCandidate(web, url, k) ==
    IF k > Len(FEED_PATTERNS) THEN [ok |-> FALSE]
    ELSE LET c == WithPath(Origin(url), FEED_PATTERNS[k])
         IN  IF HeadSucceeds(web, c) /\ ParsesAsFeed(web, c)
             THEN [ok |-> TRUE, feed_url |-> c]
             ELSE FirstCandidate(web, url, k + 1)

\* C23: validate resolves to the url itself when it parses as a feed, otherwise
\* to origin(url) + the first suffix in probe order that passes the existence
\* check and parses as a feed, and fails only when no candidate does; so on a
\* site whose only feed is at /feed/ the site URL resolves to its origin + /feed/.
C23_DiscoverResolves ==
    op.name = "validate" =>
        LET url == op.url
            web == op.web
            want == IF ParsesAsFeed(web, url) THEN [ok |-> TRUE, feed_url |-> url]
                    ELSE FirstCandidate(web, url, 1)
        IN  /\ op.result.ok = want.ok
            /\ want.ok => op.result.feed_url = want.feed_url
            /\ (/\ url.scheme # "" /\ url.path = ""
                /\ \A r \in DOMAIN web :
                     web[r].feed => r = WithPath(Origin(url), "/feed/") /\ web[r].head
                /\ \E r \in DOMAIN web : web[r].feed)
               => op.result = [ok |-> TRUE, feed_url |-> WithPath(Origin(url), "/feed/")]

\* the workers that hold the connection and are inside their statement
InStatement == { w \in Workers : workers[w].pc \in {"locked", "checked"} }

\* C24: with several workers marking and querying the shared store, the calls
\* are serialized: at most one worker is inside a statement at a time, no
\* mark_notified returns an error, no cache key ever has more than one row, and
\* an is_notified returns true exactly for the keys whose mark has returned
\* (it never observes a mark that is half done).
C24_StoreSerialized ==
    /\ [](Cardinality(InStatement) <= 1)
    /\ [](\A w \in Workers : workers[w].result # "err_database")
    /\ [](\A k \in WorkKeys : RowCount(notified, k) <= 1)
    /\ [][\A w \in Workers :
            (workers[w].call = "is_notified" /\ workers[w].pc = "locked"
               /\ workers'[w].pc = "idle")
            => /\ InStatement = {w}
               /\ workers'[w].result = (IF workers[w].key \in everMarked
                                        THEN "true" ELSE "false")]_vars

\* two workers have marked the same cache key, the second having called while
\* the first was waiting for or holding the connection; both got Ok and the
\* key has one row
C24_Witness ==
    /\ \A w \in {1, 2} :
         /\ workers[w].pc = "idle" /\ workers[w].call = "mark_notified"
         /\ workers[w].result = "ok"
    /\ workers[1].key = workers[2].key
    /\ workers[1].feed_id # workers[2].feed_id
    /\ workers[1].raced \/ workers[2].raced
    /\ RowCount(notified, workers[1].key) = 1

\* C25: every article fetch_articles returns, for each of the five source
\* kinds, has no content (its content is None whatever the entry carried), and
\* the notification built from it has an empty text.
C25_NoBodyContent ==
    op.name = "fetch_articles" =>
        /\ \A i \in 1..Len(op.articles) : op.articles[i].content = <<>>
        /\ \A i \in 1..Len(op.built) : op.built[i].text = <<>>

\* a Mastodon post with text and no title was fetched
C25_Witness ==
    /\ op.name = "fetch_articles" /\ op.kind = "Mastodon"
    /\ Len(op.articles) = 1
    /\ op.entries[1].title = <<>> /\ op.entries[1].content = <<"x", " ", "x">>
    /\ op.articles[1].title = <<"x", ".", ".", ".">>

\* C29: truncate_for_title(text, max) completes on every text; it returns text
\* when text is at most max long, and otherwise a prefix of text of at most max
\* (the part before the last space of the first max, when that part has a
\* space) followed by "..."; and a Mastodon fetch_articles never aborts on a
\* title-less post. Lengths are taken in bytes, as the function takes them.
C29_TruncateForTitle ==
    /\ op.name = "truncate_for_title" =>
         LET text == op.text
             head == ByteSliceFloor(text, op.max_len).value
         IN  /\ ~op.result.panic
             /\ ByteLen(text) <= op.max_len => op.result.value = text
             /\ ByteLen(text) > op.max_len =>
                  \E k \in 0..Len(head) :
                     /\ op.result.value = SubSeq(text, 1, k) \o <<".", ".", ".">>
                     /\ Spaces(head) # {} =>
                          k + 1 \in Spaces(head) /\ \A j \in Spaces(head) : j <= k + 1
                     /\ Spaces(head) = {} => k = Len(head)
    /\ op.name = "fetch_articles" => ~op.panic

\* the outlines of a body in document order: each one before its children,
\* its children before its next sibling
RECURSIVE PreOrder(_)
PreOrder(outlines) ==
    IF outlines = <<>> THEN <<>>
    ELSE <<Head(outlines)>> \o PreOrder(Head(outlines).outlines) \o PreOrder(Tail(outlines))

\* str is a handle @user@instance: user and instance not empty, no "@" in user
IsHandle(str, i) ==
    /\ i \in 3..(Len(str) - 1)
    /\ str[1] = "@" /\ str[i] = "@"
    /\ \A j \in 2..(i - 1) : str[j] # "@"

\* what the claim says a URL is passed on as
Rewritten(str) ==
    IF \E i \in 1..Len(str) : IsHandle(str, i)
    THEN LET i == CHOOSE k \in 1..Len(str) : IsHandle(str, k)
         IN  <<"https://">> \o SubSeq(str, i + 1, Len(str)) \o <<"/", "@">>
             \o SubSeq(str, 2, i - 1)
    ELSE str

\* C26: the extraction returns, for the outlines in document order at any
\* depth, the xmlUrl of each one that has a non-empty xmlUrl, a handle
\* @user@instance rewritten to https://instance/@user and any other URL as is.
C26_ExtractFeedUrls ==
    /\ op.name = "extract_feed_urls" =>
         LET with == SelectSeq(PreOrder(op.outlines),
                               LAMBDA o : o.xml_url # <<>> /\ o.xml_url[1] # <<>>)
         IN  op.result = [i \in 1..Len(with) |-> Rewritten(with[i].xml_url[1])]
    /\ op.name = "normalize_url" => op.result = Rewritten(op.url)

\* a group without xmlUrl holding a handle, followed by a plain URL
C26_Witness ==
    /\ op.name = "extract_feed_urls"
    /\ Len(op.outlines) = 2
    /\ op.outlines[1].xml_url = <<>> /\ Len(op.outlines[1].outlines) = 1
    /\ op.result = << <<"https://", "u", "/", "/", "@", "u">>, <<"u", "/", "@", "u">> >>

\* C27: get_all returns every persisted feed, the feed added later before the
\* feed added earlier (ids are given in the order of the adds), also when the
\* two adds fall in the same second.
C27_NewestFirst ==
    (op.name = "list" /\ op.got.ok) =>
        /\ Range(op.got.feeds) = feedsTable
        /\ Len(op.got.feeds) = Cardinality(feedsTable)
        /\ \A i, j \in 1..Len(op.got.feeds) :
             i < j => op.got.feeds[i].id > op.got.feeds[j].id

\* what fetch_unnotified returns for feed on every answer of its source
UnnotifiedOf(tbl, feed) ==
    [src \in SourceOutcomes |-> FetchUnnotified(tbl, feed, src)]

\* C28: for distinct persisted feeds A and B, whatever their titles and article
\* ids, neither a mark_notified of an article of A nor the removal of A changes
\* what fetch_unnotified returns for B.
C28_FeedsIndependent ==
    [][\A A, B \in feedsTable :
         (/\ A.id # B.id
          /\ \/ /\ op'.name = "mark_notified" /\ op'.feed_id = A.id
                /\ \E a \in Articles : op'.key = CacheKey(A.title, a)
             \/ op'.name = "remove" /\ op'.id = A.id)
         => UnnotifiedOf(notified', B) = UnnotifiedOf(notified, B)]_vars

\* C30: within one send no two attempts carry the same message; each attempt
\* after a size rejection has a strictly shorter body text than the attempt
\* before it, and the attempts differ in the body text only.
C30_AttemptsDistinct ==
    /\ \A i, j \in 1..Len(attempts) : i # j => attempts[i].message # attempts[j].message
    /\ \A i \in 2..Len(attempts) : Len(attempts[i].text) < Len(attempts[i - 1].text)
    /\ \A i \in 1..Len(attempts) :
         attempts[i].message = Format([notification EXCEPT !.text = attempts[i].text])
====
